---- MODULE Spec2Model ----
(***************************************************************************)
(* CMakeForge (src/src/main.rs): a single-shot CLI that keeps one JSON     *)
(* document per workspace (CacheJson) and shells out to the commands the   *)
(* document names.  The model has three parts:                             *)
(*   Spec      - invocations of the five subcommands, one at a time, each  *)
(*               handler one action;                                       *)
(*   ConcSpec  - a Run invocation and a SelectCurrentBuild invocation of   *)
(*               two processes stepping over the same document;            *)
(*   PipeSpec  - run_command and the child it spawns, step by step.        *)
(***************************************************************************)
EXTENDS Naturals, Sequences, FiniteSets

VARIABLES
    file,     \* the JSON document at json_path (or its absence)
    pre,      \* the document as it was when the last invocation started
    op,       \* the subcommand of the last invocation
    input,    \* the lines the last invocation read from stdin
    result,   \* what cli_parser returned for the last invocation
    log,      \* process events of the last invocation, in order
    fromInit  \* history: the document descends from one that Init wrote

\* Two invocations at once (ConcSpec): a Run and a SelectCurrentBuild.
VARIABLES
    rpc,      \* where the Run invocation stands
    rfile,    \* what its read_cache found at json_path
    rlog,     \* its process events
    rresult,  \* its result
    spc,      \* where the SelectCurrentBuild invocation stands
    sfile,    \* what it read from json_path
    spending, \* the document it is about to write back
    sresult   \* its result

\* run_command and its child (PipeSpec).
VARIABLES
    ppc,      \* where run_command stands
    handles,  \* child.stdout and child.stderr: is there a pipe to read
    child,    \* the child process
    pipe,     \* lines waiting in the pipes from the child
    terminal, \* lines that reached the tool's own stdout and stderr
    presult   \* what run_command returned

seqVars == <<file, pre, op, input, result, log, fromInit>>
concVars == <<rpc, rfile, rlog, rresult, spc, sfile, spending, sresult>>
pipeVars == <<ppc, handles, child, pipe, terminal, presult>>
vars == <<seqVars, concVars, pipeVars>>

\* what of seqVars an invocation of ConcSpec leaves alone
lastVars == <<pre, op, input, result, log, fromInit>>

-----------------------------------------------------------------------------
(* Bounds of the model. *)

\* longest build_targets list of an initial document
MaxTargets == 2
\* longest builds / runs / configurations catalog of an initial document
MaxCatalog == 2
\* lines a pipe holds before a write to it blocks
PipeCapacity == 2
\* most lines a child writes before it exits
MaxWrites == 3

-----------------------------------------------------------------------------
(* Strings are sequences of one-character strings. *)

IsWhitespace(c) == c \in {" ", "\n", "\t", "\r"}

RECURSIVE TrimStart(_)
TrimStart(s) ==
    IF s = <<>> THEN s
    ELSE IF IsWhitespace(Head(s)) THEN TrimStart(Tail(s)) ELSE s

RECURSIVE TrimEnd(_)
TrimEnd(s) ==
    IF s = <<>> THEN s
    ELSE IF IsWhitespace(s[Len(s)]) THEN TrimEnd(SubSeq(s, 1, Len(s) - 1)) ELSE s

\* str::trim
Trim(s) == TrimEnd(TrimStart(s))

Digits == {"0", "1", "2", "3", "4", "5", "6", "7", "8", "9"}

DigitVal(c) ==
    CASE c = "0" -> 0 [] c = "1" -> 1 [] c = "2" -> 2 [] c = "3" -> 3
      [] c = "4" -> 4 [] c = "5" -> 5 [] c = "6" -> 6 [] c = "7" -> 7
      [] c = "8" -> 8 [] c = "9" -> 9

RECURSIVE DecimalValue(_)
DecimalValue(s) ==
    IF s = <<>> THEN 0
    ELSE DecimalValue(SubSeq(s, 1, Len(s) - 1)) * 10 + DigitVal(s[Len(s)])

\* ParseUsize as `parse().unwrap_or(0)` would have it: what is no number is 0.
ParseUsize_or_zero(s) ==
    LET digits == IF s # <<>> /\ Head(s) = "+" THEN Tail(s) ELSE s
    IN  IF digits # <<>> /\ \A k \in DOMAIN digits : digits[k] \in Digits
        THEN [ok |-> TRUE, val |-> DecimalValue(digits)]
        ELSE [ok |-> TRUE, val |-> 0]

\* str::parse::<usize>: an optional '+', then one or more decimal digits; a
\* '-' is no part of an unsigned number.  (The lines of the model are far too
\* short to overflow a usize.)
ParseUsize(s) ==
    LET digits == IF s # <<>> /\ Head(s) = "+" THEN Tail(s) ELSE s
    IN  IF digits # <<>> /\ \A k \in DOMAIN digits : digits[k] \in Digits
        THEN [ok |-> TRUE, val |-> DecimalValue(digits)]
        ELSE [ok |-> FALSE, val |-> 0]

LowerChar(c) ==
    CASE c = "Y" -> "y" [] c = "E" -> "e" [] c = "S" -> "s"
      [] c = "N" -> "n" [] c = "O" -> "o" [] OTHER -> c

\* str::to_lowercase
ToLowercase(s) == [k \in DOMAIN s |-> LowerChar(s[k])]

\* io::stdin().read_line: the text typed, with the newline that ends it
read_line(text) == text \o <<"\n">>

\* confirm_overwrite without to_lowercase
confirm_overwrite_case_sensitive(line) ==
    Trim(line) \in {<<"y">>, <<"y", "e", "s">>}

\* confirm_overwrite's verdict on the line it read
confirm_overwrite(line) ==
    ToLowercase(Trim(line)) \in {<<"y">>, <<"y", "e", "s">>}

-----------------------------------------------------------------------------
(* The document. *)

BuildJson(n, c, a) == [name |-> n, command |-> c, args |-> a]
RunJson(n, c, a, p) == [name |-> n, command |-> c, args |-> a, pre_build |-> p]
ConfigureJson(n, c, a) == [name |-> n, command |-> c, args |-> a]

CacheJson(w, bt, cur, b, r, c) ==
    [workspace |-> w, build_targets |-> bt, current_build_target |-> cur,
     builds |-> b, runs |-> r, configurations |-> c]

\* DefaultCache selecting a target its build_targets do not list
DefaultCache_unlisted(workspace) ==
    CacheJson(workspace, <<"test1", "test2">>, "test0",
        << BuildJson("test1", "cmake ..", <<"-DCMAKE_BUILD_TYPE=Debug">>) >>,
        << RunJson("test1", "/my/super/app", <<"--arg1", "--arg2">>, TRUE),
           RunJson("test2", "/my/super/app", <<"--arg1", "--arg2">>, TRUE) >>,
        << ConfigureJson("test1", "cmake",
               <<"-DCMAKE_BUILD_TYPE=Debug", "-DCMAKE_EXPORT_COMPILE_COMMANDS=ON",
                 "-G", "Ninja">>) >>)

\* The document create_json_in_workspace writes.
DefaultCache(workspace) ==
    CacheJson(workspace, <<"test1", "test2">>, "test1",
        << BuildJson("test1", "cmake ..", <<"-DCMAKE_BUILD_TYPE=Debug">>) >>,
        << RunJson("test1", "/my/super/app", <<"--arg1", "--arg2">>, TRUE),
           RunJson("test2", "/my/super/app", <<"--arg1", "--arg2">>, TRUE) >>,
        << ConfigureJson("test1", "cmake",
               <<"-DCMAKE_BUILD_TYPE=Debug", "-DCMAKE_EXPORT_COMPILE_COMMANDS=ON",
                 "-G", "Ninja">>) >>)

NullCache == CacheJson("", <<>>, "", <<>>, <<>>, <<>>)

\* What is at json_path: nothing; bytes serde_json cannot read as a CacheJson;
\* or a CacheJson, possibly with members or layout that to_string_pretty
\* would not have written (`foreign`).
NoFile == [exists |-> FALSE, valid |-> FALSE, foreign |-> FALSE, doc |-> NullCache]
Malformed == [exists |-> TRUE, valid |-> FALSE, foreign |-> FALSE, doc |-> NullCache]
Truncated == Malformed

\* serde_json::to_string_pretty(&cache) written to json_path
Written(cache) == [exists |-> TRUE, valid |-> TRUE, foreign |-> FALSE, doc |-> cache]

Ok == [ok |-> TRUE, err |-> "", name |-> ""]
Err(kind, n) == [ok |-> FALSE, err |-> kind, name |-> n]

\* serde_json::from_str::<CacheJson> of what File::open(json_path) reads
read_cache(f) ==
    IF ~f.exists THEN [result |-> Err("No such file or directory", ""), cache |-> NullCache]
    ELSE IF ~f.valid THEN [result |-> Err("json", ""), cache |-> NullCache]
    ELSE [result |-> Ok, cache |-> f.doc]

-----------------------------------------------------------------------------
(* Process events and run_command. *)

\* A process event.  `by` and `name` tell who called run_command: the method
\* BuildJson::build, RunJson::run or ConfigureJson::configure, and the entry
\* it was called on.
Event(e, by, entry, dir, code) ==
    [ev |-> e, by |-> by, name |-> entry.name, dir |-> dir,
     command |-> entry.command, args |-> entry.args, code |-> code]

\* What the operating system and the child make of one spawn.
Outcomes == {"spawn_failed", "exit0", "exit1"}

\* entry.build(workspace) / entry.run(workspace) / entry.configure(workspace):
\* run_command(workspace, &entry.command, &entry.args) as one step: spawn in
\* `workspace`, wait, judge the status.  (PipeSpec takes run_command apart.)
run_command(by, entry, workspace, outcome) ==
    IF outcome = "spawn_failed"
    THEN [result |-> Err("spawn", ""),
          log |-> << Event("spawn_failed", by, entry, workspace, 0) >>]
    ELSE IF outcome = "exit0"
    THEN [result |-> Ok,
          log |-> << Event("spawn", by, entry, workspace, 0),
                     Event("exit", by, entry, workspace, 0) >>]
    ELSE [result |-> Err("Command failed with status", ""),
          log |-> << Event("spawn", by, entry, workspace, 0),
                     Event("exit", by, entry, workspace, 1) >>]

\* The loop `for e in &catalog { if e.name == name { ... return } }`: the
\* position of the entry its body runs for, 0 when the loop falls through.
RECURSIVE FirstMatchFrom(_, _, _)
FirstMatchFrom(catalog, name, k) ==
    IF k > Len(catalog) THEN 0
    ELSE IF catalog[k].name = name THEN k
    ELSE FirstMatchFrom(catalog, name, k + 1)

\* the loop without its `return`: the last matching entry wins
RECURSIVE LastMatchFrom(_, _, _)
LastMatchFrom(catalog, name, k) ==
    IF k = 0 THEN 0
    ELSE IF catalog[k].name = name THEN k
    ELSE LastMatchFrom(catalog, name, k - 1)

FirstMatch_last(catalog, name) == LastMatchFrom(catalog, name, Len(catalog))

FirstMatch(catalog, name) == FirstMatchFrom(catalog, name, 1)

-----------------------------------------------------------------------------
(* The handlers, as functions of the file they find and of their inputs.   *)
(* Each yields the file it leaves, the lines it read, its result and the   *)
(* process events it caused.                                               *)

Done(f, lines, res, events) ==
    [file |-> f, input |-> lines, result |-> res, log |-> events]

\* create_json_in_workspace; cli_parser returns Ok(()) whatever it did
create_json_in_workspace(f, workspace, text) ==
    IF f.exists /\ ~confirm_overwrite(read_line(text))
    THEN Done(f, <<read_line(text)>>, Ok, <<>>)
    ELSE Done(Written(DefaultCache(workspace)),
              IF f.exists THEN <<read_line(text)>> ELSE <<>>, Ok, <<>>)

\* SelectTarget counting the index from the end of build_targets
SelectTarget_from_end(cache, index) ==
    [cache EXCEPT !.current_build_target =
        cache.build_targets[Len(cache.build_targets) - index]]

\* the assignment of line 216 and the write-back of lines 220-222
SelectTarget(cache, index) ==
    [cache EXCEPT !.current_build_target = cache.build_targets[index + 1]]

select_current_build_target(f, text) ==
    IF ~f.exists THEN Done(f, <<>>, Err("Json file does not exist", ""), <<>>)
    ELSE IF ~f.valid THEN Done(f, <<>>, Err("json", ""), <<>>)
    ELSE LET line == read_line(text)
             index == ParseUsize(Trim(line))
         IN  IF ~index.ok THEN Done(f, <<line>>, Err("Invalid input", ""), <<>>)
             ELSE IF index.val >= Len(f.doc.build_targets)
             THEN Done(f, <<line>>, Err("Invalid index", ""), <<>>)
             ELSE Done(Written(SelectTarget(f.doc, index.val)), <<line>>, Ok, <<>>)

\* build_current_target saving the document it loaded
build_current_target_saving(f, workspace, outcome) ==
    IF ~f.exists THEN Done(f, <<>>, Err("No build target selected", ""), <<>>)
    ELSE IF ~f.valid THEN Done(f, <<>>, Err("json", ""), <<>>)
    ELSE LET cache == f.doc
             k == FirstMatch(cache.builds, cache.current_build_target)
         IN  IF k = 0
             THEN Done(Written(cache), <<>>,
                       Err("Build target not found", cache.current_build_target), <<>>)
             ELSE LET r == run_command("build", cache.builds[k], workspace, outcome)
                  IN  Done(Written(cache), <<>>, r.result, r.log)

build_current_target(f, workspace, outcome) ==
    IF ~f.exists THEN Done(f, <<>>, Err("No build target selected", ""), <<>>)
    ELSE IF ~f.valid THEN Done(f, <<>>, Err("json", ""), <<>>)
    ELSE LET cache == f.doc
             k == FirstMatch(cache.builds, cache.current_build_target)
         IN  IF k = 0
             THEN Done(f, <<>>, Err("Build target not found", cache.current_build_target), <<>>)
             ELSE LET r == run_command("build", cache.builds[k], workspace, outcome)
                  IN  Done(f, <<>>, r.result, r.log)

\* run_current_target without the `?` of line 255: a failed build is ignored
run_with_reload_unchecked(f, fb, workspace, buildOutcome, runOutcome) ==
    LET loaded == read_cache(f) IN
    IF ~loaded.result.ok THEN Done(f, <<>>, loaded.result, <<>>)
    ELSE LET cache == loaded.cache
             k == FirstMatch(cache.runs, cache.current_build_target)
         IN  IF k = 0
             THEN Done(f, <<>>, Err("Run target not found", cache.current_build_target), <<>>)
             ELSE LET b == IF cache.runs[k].pre_build
                           THEN build_current_target(fb, workspace, buildOutcome)
                           ELSE Done(fb, <<>>, Ok, <<>>)
                      r == run_command("run", cache.runs[k], workspace, runOutcome)
                  IN  Done(f, <<>>, r.result, b.log \o r.log)

\* `fb` is the file build_current_target finds when it loads json_path again
run_with_reload(f, fb, workspace, buildOutcome, runOutcome) ==
    LET loaded == read_cache(f) IN
    IF ~loaded.result.ok THEN Done(f, <<>>, loaded.result, <<>>)
    ELSE LET cache == loaded.cache
             k == FirstMatch(cache.runs, cache.current_build_target)
         IN  IF k = 0
             THEN Done(f, <<>>, Err("Run target not found", cache.current_build_target), <<>>)
             ELSE LET b == IF cache.runs[k].pre_build
                           THEN build_current_target(fb, workspace, buildOutcome)
                           ELSE Done(fb, <<>>, Ok, <<>>)
                      r == run_command("run", cache.runs[k], workspace, runOutcome)
                  IN  IF ~b.result.ok THEN Done(f, <<>>, b.result, b.log)
                      ELSE Done(f, <<>>, r.result, b.log \o r.log)

\* with one invocation at a time nothing writes between the two loads
run_current_target(f, workspace, buildOutcome, runOutcome) ==
    run_with_reload(f, f, workspace, buildOutcome, runOutcome)

\* configure_current_build_target taking a missing entry for nothing to do
configure_current_build_target_silent(f, workspace, outcome) ==
    LET loaded == read_cache(f) IN
    IF ~loaded.result.ok THEN Done(f, <<>>, loaded.result, <<>>)
    ELSE LET cache == loaded.cache
             k == FirstMatch(cache.configurations, cache.current_build_target)
         IN  IF k = 0 THEN Done(f, <<>>, Ok, <<>>)
             ELSE LET r == run_command("configure", cache.configurations[k], workspace, outcome)
                  IN  Done(f, <<>>, r.result, r.log)

configure_current_build_target(f, workspace, outcome) ==
    LET loaded == read_cache(f) IN
    IF ~loaded.result.ok THEN Done(f, <<>>, loaded.result, <<>>)
    ELSE LET cache == loaded.cache
             k == FirstMatch(cache.configurations, cache.current_build_target)
         IN  IF k = 0
             THEN Done(f, <<>>, Err("Configure target not found", cache.current_build_target), <<>>)
             ELSE LET r == run_command("configure", cache.configurations[k], workspace, outcome)
                  IN  Done(f, <<>>, r.result, r.log)

-----------------------------------------------------------------------------
(* Inputs. *)

\* The directory the tool is started in (exe_path), and the workspace values
\* a document at its json_path may carry: main derives json_path from the
\* directory's last component alone, so the two need not agree.
Workspace == "/home/u/proj"
Workspaces == {Workspace, "/srv/proj"}

Names == {"test1", "test2"}

SeqsUpTo(S, n) == UNION {[1..k -> S] : k \in 0..n}

\* What is typed at "Enter the index of the build target you want to select:"
IndexTexts ==
    { <<>>, <<"0">>, <<"1">>, <<"2">>, <<"3">>, <<"+", "1">>, <<"-", "1">>,
      <<"0", "1">>, <<"1", "0">>, <<" ", "1", " ">>, <<"1", " ", "0">>, <<"x">> }

\* What is typed at "Do you want to overwrite it?[y/n](Empty 'no')"
AnswerTexts ==
    { <<>>, <<"y">>, <<"Y">>, <<"y", "e", "s">>, <<"Y", "E", "S">>,
      <<"Y", "e", "s">>, <<" ", "y", "e", "s", " ">>, <<"n">>, <<"n", "o">>, <<"y", "e">>,
      <<"y", " ", "e", "s">>, <<"y", "e", "s", "s">>, <<"N">> }

\* An argument that tells the entries of a catalog apart by position.
Slot(k) ==
    CASE k = 1 -> "#1" [] k = 2 -> "#2" [] k = 3 -> "#3" [] OTHER -> "#4"

InitBuilds ==
    { [k \in DOMAIN ns |-> BuildJson(ns[k], "cmake", <<"--build", Slot(k)>>)] :
        ns \in SeqsUpTo(Names, MaxCatalog) }

InitRuns ==
    UNION { { [k \in DOMAIN ns |-> RunJson(ns[k], "./app", <<Slot(k)>>, pb[k])] :
                pb \in [DOMAIN ns -> BOOLEAN] } :
            ns \in SeqsUpTo(Names, MaxCatalog) }

InitConfigurations ==
    { [k \in DOMAIN ns |-> ConfigureJson(ns[k], "cmake", <<"-G", Slot(k)>>)] :
        ns \in SeqsUpTo(Names, MaxCatalog) }

\* Documents with members outside the schema, or laid out by hand.
ForeignCaches ==
    LET d == DefaultCache(Workspace) IN
    { CacheJson(w, bt, cur, d.builds, d.runs, d.configurations) :
        w \in Workspaces, bt \in SeqsUpTo(Names, MaxTargets), cur \in Names }

\* Documents a user may have made of the scaffold: another list of targets,
\* other builds and runs, or other configurations.
InitCaches ==
    LET d == DefaultCache(Workspace) IN
    ForeignCaches
    \cup
    { CacheJson(d.workspace, d.build_targets, cur, b, r, d.configurations) :
        b \in InitBuilds, r \in InitRuns, cur \in Names }
    \cup
    { CacheJson(d.workspace, d.build_targets, cur, d.builds, d.runs, c) :
        c \in InitConfigurations, cur \in Names }

InitFiles ==
    {NoFile, Malformed}
    \cup { Written(c) : c \in InitCaches }
    \cup { [exists |-> TRUE, valid |-> TRUE, foreign |-> TRUE, doc |-> c] :
             c \in ForeignCaches }

-----------------------------------------------------------------------------
(* One invocation at a time. *)

NoChild == [spawned |-> FALSE, program |-> <<>>, pos |-> 1, exited |-> FALSE, code |-> 0]
NoLines == [stdout |-> 0, stderr |-> 0]
NoHandles == [stdout |-> FALSE, stderr |-> FALSE]

SeqIdle ==
    /\ pre = file
    /\ op = "none"
    /\ input = <<>>
    /\ result = Ok
    /\ log = <<>>
    /\ fromInit = FALSE

ConcIdle ==
    /\ rpc = "idle" /\ rfile = NoFile /\ rlog = <<>> /\ rresult = Ok
    /\ spc = "idle" /\ sfile = NoFile /\ spending = NoFile /\ sresult = Ok

PipeIdle ==
    /\ ppc = "call"
    /\ handles = NoHandles
    /\ child = NoChild
    /\ pipe = NoLines
    /\ terminal = NoLines
    /\ presult = Ok

Init ==
    /\ file \in InitFiles
    /\ SeqIdle
    /\ ConcIdle
    /\ PipeIdle

Invoke(name, r) ==
    /\ file' = r.file
    /\ pre' = file
    /\ op' = name
    /\ input' = r.input
    /\ result' = r.result
    /\ log' = r.log
    /\ UNCHANGED <<concVars, pipeVars>>

CmdInit ==
    \E text \in AnswerTexts :
        /\ Invoke("init", create_json_in_workspace(file, Workspace, text))
        /\ fromInit' = IF file.exists /\ ~confirm_overwrite(read_line(text))
                       THEN fromInit ELSE TRUE

CmdSelectCurrentBuild ==
    \E text \in IndexTexts :
        /\ Invoke("select-current-build", select_current_build_target(file, text))
        /\ UNCHANGED fromInit

CmdBuild ==
    \E o \in Outcomes :
        /\ Invoke("build", build_current_target(file, Workspace, o))
        /\ UNCHANGED fromInit

CmdRun ==
    \E ob \in Outcomes, o \in Outcomes :
        /\ Invoke("run", run_current_target(file, Workspace, ob, o))
        /\ UNCHANGED fromInit

CmdConfigure ==
    \E o \in Outcomes :
        /\ Invoke("configure", configure_current_build_target(file, Workspace, o))
        /\ UNCHANGED fromInit

Next == CmdInit \/ CmdSelectCurrentBuild \/ CmdBuild \/ CmdRun \/ CmdConfigure

Spec == Init /\ [][Next]_vars

-----------------------------------------------------------------------------
(* Two processes of the tool on one json_path: one runs `run`, the other   *)
(* `select-current-build`.  Nothing locks the file, so their reads and     *)
(* writes of it interleave; what either does between two accesses of the   *)
(* file is its own business and is taken in one step.                      *)

\* run_current_target, line 249: read_cache(json_path)
RunLoad ==
    /\ rpc = "idle"
    /\ rpc' = IF read_cache(file).result.ok THEN "loaded" ELSE "idle"
    /\ rfile' = file
    /\ rlog' = <<>>
    /\ rresult' = read_cache(file).result
    /\ UNCHANGED <<file, spc, sfile, spending, sresult, lastVars, pipeVars>>

\* run_current_target, lines 250-262: the rest, with build_current_target
\* loading json_path anew (lines 228-235) when the run entry has pre_build
RunRest ==
    /\ rpc = "loaded"
    /\ \E ob \in Outcomes, o \in Outcomes :
          LET r == run_with_reload(rfile, file, Workspace, ob, o)
          IN  rlog' = r.log /\ rresult' = r.result
    /\ rpc' = "idle"
    /\ UNCHANGED <<file, rfile, spc, sfile, spending, sresult, lastVars, pipeVars>>

\* select_current_build_target, lines 187-197
SelectLoad ==
    /\ spc = "idle"
    /\ spc' = IF file.exists /\ file.valid THEN "prompt" ELSE "idle"
    /\ sfile' = file
    /\ spending' = NoFile
    /\ sresult' = IF file.exists /\ file.valid THEN Ok
                  ELSE select_current_build_target(file, <<>>).result
    /\ UNCHANGED <<file, rpc, rfile, rlog, rresult, lastVars, pipeVars>>

\* lines 199-220: prompt, parse, validate, update the loaded document
SelectAnswer ==
    /\ spc = "prompt"
    /\ \E text \in IndexTexts :
          LET r == select_current_build_target(sfile, text)
          IN  /\ sresult' = r.result
              /\ spending' = IF r.result.ok THEN r.file ELSE NoFile
              /\ spc' = IF r.result.ok THEN "create" ELSE "idle"
    /\ UNCHANGED <<file, sfile, rpc, rfile, rlog, rresult, lastVars, pipeVars>>

\* line 221: File::create(json_path) leaves an empty file
SelectCreate ==
    /\ spc = "create"
    /\ file' = Truncated
    /\ spc' = "write"
    /\ UNCHANGED <<sfile, spending, sresult, rpc, rfile, rlog, rresult, lastVars, pipeVars>>

\* line 222: write_all
SelectWrite ==
    /\ spc = "write"
    /\ file' = spending
    /\ spc' = "idle"
    /\ UNCHANGED <<sfile, spending, sresult, rpc, rfile, rlog, rresult, lastVars, pipeVars>>

ConcInit ==
    /\ file \in InitFiles
    /\ SeqIdle
    /\ ConcIdle
    /\ PipeIdle

ConcNext ==
    RunLoad \/ RunRest \/ SelectLoad \/ SelectAnswer \/ SelectCreate \/ SelectWrite

ConcSpec == ConcInit /\ [][ConcNext]_vars

-----------------------------------------------------------------------------
(* run_command (lines 92-119) and the child it spawns, step by step.  The  *)
(* child writes the lines of its program, one at a time, to its stdout or  *)
(* stderr, and exits.  A stream the child inherited is the tool's own: a   *)
(* line written to it is on the terminal.  A stream that is a pipe holds   *)
(* PipeCapacity lines; a write to a full pipe waits for a reader.          *)

\* the same Command with .stdout(Stdio::piped()).stderr(Stdio::piped())
SpawnStdio_piped == [stdout |-> "piped", stderr |-> "piped"]

\* Command::new(command).args(args).current_dir(workspace).spawn(): nothing
\* sets a Stdio, and spawn() lets the child inherit what is not set
SpawnStdio == [stdout |-> "inherit", stderr |-> "inherit"]

Programs == SeqsUpTo({"stdout", "stderr"}, MaxWrites)

\* lines 93-96
Spawn ==
    /\ ppc = "call"
    /\ \E ok \in BOOLEAN, program \in Programs, code \in {0, 1} :
          IF ok
          THEN /\ child' = [spawned |-> TRUE, program |-> program, pos |-> 1,
                            exited |-> FALSE, code |-> code]
               /\ handles' = [stdout |-> SpawnStdio.stdout = "piped",
                              stderr |-> SpawnStdio.stderr = "piped"]
               /\ ppc' = "stdout"
               /\ presult' = presult
          ELSE /\ ppc' = "returned"
               /\ presult' = Err("spawn", "")
               /\ UNCHANGED <<child, handles>>
    /\ UNCHANGED <<pipe, terminal, seqVars, concVars>>

\* One step of `if let Some(s) = child.<stream>.take() { for line in
\* BufReader::new(s).lines() { print } }`: without a handle the block is
\* skipped; with one, a waiting line is printed, end-of-file (the child has
\* exited and the pipe is empty) ends the loop, and otherwise the read waits.
Drain(stream, next) ==
    /\ ppc = stream
    /\ IF ~handles[stream]
       THEN ppc' = next /\ UNCHANGED <<pipe, terminal>>
       ELSE IF pipe[stream] > 0
       THEN /\ pipe' = [pipe EXCEPT ![stream] = @ - 1]
            /\ terminal' = [terminal EXCEPT ![stream] = @ + 1]
            /\ ppc' = ppc
       ELSE /\ child.exited
            /\ ppc' = next
            /\ UNCHANGED <<pipe, terminal>>
    /\ UNCHANGED <<handles, child, presult, seqVars, concVars>>

\* lines 98-104
DrainStdout == Drain("stdout", "stderr")

\* lines 106-112
DrainStderr == Drain("stderr", "wait")

\* lines 114-118
Wait ==
    /\ ppc = "wait"
    /\ child.exited
    /\ ppc' = "returned"
    /\ presult' = IF child.code = 0 THEN Ok ELSE Err("Command failed with status", "")
    /\ UNCHANGED <<handles, child, pipe, terminal, seqVars, concVars>>

\* the child's next write would wait
WriteBlocked ==
    /\ child.spawned /\ ~child.exited
    /\ child.pos <= Len(child.program)
    /\ handles[child.program[child.pos]]
    /\ pipe[child.program[child.pos]] >= PipeCapacity

\* The child: its next write, or its exit once the program is through.
ChildStep ==
    /\ child.spawned /\ ~child.exited
    /\ IF child.pos > Len(child.program)
       THEN /\ child' = [child EXCEPT !.exited = TRUE]
            /\ UNCHANGED <<pipe, terminal>>
       ELSE LET stream == child.program[child.pos] IN
            /\ ~WriteBlocked
            /\ child' = [child EXCEPT !.pos = @ + 1]
            /\ IF handles[stream]
               THEN pipe' = [pipe EXCEPT ![stream] = @ + 1] /\ UNCHANGED terminal
               ELSE terminal' = [terminal EXCEPT ![stream] = @ + 1] /\ UNCHANGED pipe
    /\ UNCHANGED <<ppc, handles, presult, seqVars, concVars>>

PipeInit ==
    /\ file = NoFile
    /\ SeqIdle
    /\ ConcIdle
    /\ PipeIdle

PipeNext == Spawn \/ DrainStdout \/ DrainStderr \/ Wait \/ ChildStep

PipeSpec == PipeInit /\ [][PipeNext]_vars

-----------------------------------------------------------------------------
(* Properties of Spec.  In a state, `pre` is the document the last          *)
(* invocation found and `file` the one it left.                             *)

Range(s) == {s[k] : k \in DOMAIN s}

\* the decimal numeral of a one-digit number
Numeral(i) ==
    CASE i = 0 -> <<"0">> [] i = 1 -> <<"1">> [] i = 2 -> <<"2">> [] i = 3 -> <<"3">>
      [] i = 4 -> <<"4">> [] i = 5 -> <<"5">> [] i = 6 -> <<"6">> [] i = 7 -> <<"7">>
      [] i = 8 -> <<"8">> [] i = 9 -> <<"9">>

Loaded(f) == f.exists /\ f.valid

Matching(catalog, name) == {k \in DOMAIN catalog : catalog[k].name = name}

Least(S) == CHOOSE k \in S : \A j \in S : k <= j

EventsBy(who) == {j \in DOMAIN log : log[j].by = who}

\* C1: selecting a valid index i of a persisted document d succeeds and
\* leaves a document whose current_build_target is d.build_targets[i] and
\* whose workspace, build_targets, builds, runs and configurations are d's.
C1_SelectValidIndex ==
    \A i \in 0..(Len(pre.doc.build_targets) - 1) :
        ( /\ op = "select-current-build"
          /\ Loaded(pre)
          /\ input = <<read_line(Numeral(i))>> )
        => /\ result = Ok
           /\ Loaded(file)
           /\ file.doc.current_build_target = pre.doc.build_targets[i + 1]
           /\ file.doc.workspace = pre.doc.workspace
           /\ file.doc.build_targets = pre.doc.build_targets
           /\ file.doc.builds = pre.doc.builds
           /\ file.doc.runs = pre.doc.runs
           /\ file.doc.configurations = pre.doc.configurations

C1_Witness ==
    /\ op = "select-current-build"
    /\ Loaded(pre)
    /\ input = <<read_line(Numeral(1))>>
    /\ result = Ok
    /\ pre.doc.build_targets = <<"test2", "test1">>
    /\ pre.doc.current_build_target = "test2"
    /\ file.doc.current_build_target = "test1"

\* lines that are no number
C2_NonNumericTexts == { <<>>, <<"-", "1">>, <<"x">>, <<"1", " ", "0">> }

C2_InvalidLine(line, targets) ==
    \/ line \in {read_line(t) : t \in C2_NonNumericTexts}
    \/ \E i \in 0..9 : i >= Len(targets) /\ line = read_line(Numeral(i))

\* C2: SelectCurrentBuild given a non-numeric line or an index >=
\* len(build_targets) returns an error after reading that one line and
\* leaves the document as it was; without a document it returns an error
\* and creates none.
C2_InvalidSelection ==
    op = "select-current-build" =>
        /\ ~pre.exists => (~result.ok /\ file = NoFile /\ input = <<>>)
        /\ ( /\ Loaded(pre)
             /\ Len(input) >= 1
             /\ C2_InvalidLine(input[1], pre.doc.build_targets) )
           => (~result.ok /\ Len(input) = 1 /\ file = pre)

C2_Witness ==
    /\ op = "select-current-build"
    /\ Loaded(pre)
    /\ pre.foreign
    /\ pre.doc.build_targets # <<>>
    /\ input = <<read_line(Numeral(Len(pre.doc.build_targets)))>>
    /\ result = Err("Invalid index", "")
    /\ file = pre

\* C3: in a Run whose run entry has pre_build, the build entry's command has
\* exited (with success) before the run entry's command is spawned; if the
\* Build step fails Run returns its error and spawns no run command; and
\* without pre_build no build command is spawned.
C3_PreBuildOrder ==
    ( /\ op = "run"
      /\ Loaded(pre)
      /\ Matching(pre.doc.runs, pre.doc.current_build_target) # {} )
    => LET e == pre.doc.runs[Least(Matching(pre.doc.runs, pre.doc.current_build_target))]
           built == \E j \in EventsBy("build") : log[j].ev = "exit" /\ log[j].code = 0
       IN  IF e.pre_build
           THEN /\ \A j \in EventsBy("run") :
                      \E i \in EventsBy("build") :
                          i < j /\ log[i].ev = "exit" /\ log[i].code = 0
                /\ ~built =>
                      /\ EventsBy("run") = {}
                      /\ ~result.ok
                      /\ result.err \in {"Build target not found", "spawn",
                                         "Command failed with status"}
                /\ built => EventsBy("run") # {}
           ELSE EventsBy("build") = {} /\ EventsBy("run") # {}

C3_Witness ==
    /\ op = "run"
    /\ Len(log) = 4
    /\ log[1].by = "build" /\ log[1].ev = "spawn"
    /\ log[2].by = "build" /\ log[2].ev = "exit" /\ log[2].code = 0
    /\ log[3].by = "run" /\ log[3].ev = "spawn"
    /\ result = Ok

\* C4 as claimed: whatever changed the persisted document was a
\* SelectCurrentBuild.
C4_OnlySelectWrites ==
    file # pre => op = "select-current-build"

\* C4, amended: Configure, Build and Run leave the persisted document as it
\* was; SelectCurrentBuild changes at most current_build_target (to one of
\* the build_targets), rewriting the document in the tool's own
\* serialisation; Init creates the document or replaces it by the scaffold.
C4_WritersAreSelectAndInit ==
    /\ op \in {"configure", "build", "run"} => file = pre
    /\ (op = "select-current-build" /\ file # pre) =>
          /\ Loaded(pre)
          /\ file.doc.current_build_target \in Range(pre.doc.build_targets)
          /\ file = Written([pre.doc EXCEPT !.current_build_target =
                                               file.doc.current_build_target])
    /\ (op = "init" /\ file # pre) => file = Written(DefaultCache(Workspace))
    /\ file # pre => op \in {"select-current-build", "init"}

C4_Witness ==
    /\ op = "init"
    /\ Loaded(pre)
    /\ file # pre
    /\ pre.doc.builds # file.doc.builds

\* answers that are 'y' or 'yes' once trimmed, whatever their case
C5_YesTexts ==
    { <<"y">>, <<"Y">>, <<"y", "e", "s">>, <<"Y", "E", "S">>,
      <<"Y", "e", "s">>, <<" ", "y", "e", "s", " ">> }

\* C5: Init on an existing document, answered with anything but 'y' or
\* 'yes', leaves the document as it was and completes without error; answered
\* 'y'/'yes', or without a document, it leaves the default scaffold with the
\* given workspace.
C5_InitConfirmation ==
    op = "init" =>
        /\ result = Ok
        /\ pre.exists => Len(input) = 1
        /\ IF pre.exists /\ input[1] \notin {read_line(t) : t \in C5_YesTexts}
           THEN file = pre
           ELSE /\ file = Written(DefaultCache(Workspace))
                /\ file.doc.workspace = Workspace
                /\ file.doc.current_build_target = "test1"
                /\ file.doc.build_targets = <<"test1", "test2">>

C5_Witness ==
    /\ op = "init"
    /\ Loaded(pre)
    /\ pre.doc.workspace # Workspace
    /\ input = <<read_line(<<"n">>)>>
    /\ file = pre
    /\ result = Ok

\* C6: Configure, Build and Run return an error, spawn nothing and leave the
\* document alone when their catalog has no entry named current_build_target
\* (then a not-found error naming the target) or when there is no document.
C6_NotFound ==
    LET cur == pre.doc.current_build_target
        missing(name, catalog, message) ==
            (op = name /\ Loaded(pre) /\ \A k \in DOMAIN catalog : catalog[k].name # cur)
            => result = Err(message, cur) /\ log = <<>> /\ file = pre
    IN  /\ missing("configure", pre.doc.configurations, "Configure target not found")
        /\ missing("build", pre.doc.builds, "Build target not found")
        /\ missing("run", pre.doc.runs, "Run target not found")
        /\ (op \in {"configure", "build", "run"} /\ ~pre.exists)
           => ~result.ok /\ log = <<>> /\ file = NoFile

C6_Witness ==
    /\ op = "configure"
    /\ Loaded(pre)
    /\ pre.doc.configurations # <<>>
    /\ result = Err("Configure target not found", "test2")
    /\ log = <<>>

\* C7: with several entries named current_build_target in a catalog,
\* Configure, Build and Run execute the first of them in catalog order and no
\* other; for Run the first entry's pre_build decides whether Build runs.
C7_FirstEntryWins ==
    LET cur == pre.doc.current_build_target
        first(catalog) == catalog[Least(Matching(catalog, cur))]
        only(who, e) ==
            /\ EventsBy(who) # {}
            /\ \A j \in EventsBy(who) : log[j].command = e.command /\ log[j].args = e.args
    IN  /\ ( /\ op = "configure" /\ Loaded(pre)
             /\ Matching(pre.doc.configurations, cur) # {} )
           => only("configure", first(pre.doc.configurations)) /\ EventsBy("configure") = DOMAIN log
        /\ ( /\ op = "build" /\ Loaded(pre)
             /\ Matching(pre.doc.builds, cur) # {} )
           => only("build", first(pre.doc.builds)) /\ EventsBy("build") = DOMAIN log
        /\ ( /\ op = "run" /\ Loaded(pre)
             /\ Matching(pre.doc.runs, cur) # {} )
           => /\ \A j \in EventsBy("run") :
                    /\ log[j].command = first(pre.doc.runs).command
                    /\ log[j].args = first(pre.doc.runs).args
              /\ IF first(pre.doc.runs).pre_build
                 THEN IF Matching(pre.doc.builds, cur) # {}
                      THEN only("build", first(pre.doc.builds))
                      ELSE result = Err("Build target not found", cur) /\ log = <<>>
                 ELSE EventsBy("build") = {} /\ EventsBy("run") # {}

C7_Witness ==
    /\ op = "run"
    /\ Loaded(pre)
    /\ Len(pre.doc.runs) = 2
    /\ pre.doc.runs[1].name = pre.doc.runs[2].name
    /\ pre.doc.runs[1].pre_build /\ ~pre.doc.runs[2].pre_build
    /\ Len(pre.doc.builds) = 2
    /\ pre.doc.builds[1].name = pre.doc.builds[2].name
    /\ pre.doc.current_build_target = pre.doc.runs[1].name
    /\ pre.doc.current_build_target = pre.doc.builds[1].name
    /\ Len(log) = 4
    /\ log[1].args = pre.doc.builds[1].args
    /\ log[3].args = pre.doc.runs[1].args

Member(f) == Loaded(f) /\ f.doc.current_build_target \in Range(f.doc.build_targets)

\* C10: a document that descends from one Init wrote has its
\* current_build_target among its build_targets after any invocations; every
\* successful SelectCurrentBuild establishes that, and no invocation breaks it.
C10_CurrentIsListed ==
    /\ fromInit => Member(file)
    /\ (op = "select-current-build" /\ result.ok) => Member(file)
    /\ Member(pre) => Member(file)

C10_Witness ==
    /\ fromInit
    /\ op = "select-current-build"
    /\ result = Ok
    /\ pre.doc.current_build_target = "test1"
    /\ file.doc.current_build_target = "test2"

-----------------------------------------------------------------------------
(* Properties of ConcSpec. *)

\* C9: in one Run invocation whose run entry has pre_build, the build entry
\* executed has the name of the run entry executed after it, also while
\* another invocation selects another target.
C9_BuildMatchesRun ==
    \A i, j \in DOMAIN rlog :
        (rlog[i].by = "build" /\ rlog[j].by = "run") => rlog[i].name = rlog[j].name

-----------------------------------------------------------------------------
(* Properties of PipeSpec. *)

\* run_command waits for a line of the stream
ReadBlocked(stream) ==
    ppc = stream /\ handles[stream] /\ pipe[stream] = 0 /\ ~child.exited

\* the state of the claim: the runner waits on stdout, the child on stderr
PipeDeadlock ==
    /\ ReadBlocked("stdout")
    /\ WriteBlocked
    /\ child.program[child.pos] = "stderr"

Count(program, stream) == Cardinality({k \in DOMAIN program : program[k] = stream})

\* C8 as claimed: run_command reads stderr only after stdout's end-of-file,
\* so a child that writes more lines to stderr than the pipe holds waits on
\* stderr for good while run_command waits on stdout: such a child never
\* gets to exit.
C8_FullStderrBlocks ==
    (child.spawned /\ Count(child.program, "stderr") > PipeCapacity) => ~child.exited

\* C8, amended: run_command spawns the child with stdout and stderr
\* inherited, so child.stdout and child.stderr are None, neither loop reads a
\* line and run_command goes on to wait; no write of the child ever waits on
\* run_command, and the state in which run_command waits on stdout while the
\* child waits on stderr is not reachable.
C8_InheritedNeverBlocks ==
    /\ child.spawned => (~handles.stdout /\ ~handles.stderr)
    /\ ~ReadBlocked("stdout") /\ ~ReadBlocked("stderr")
    /\ ~WriteBlocked
    /\ ~PipeDeadlock
    /\ pipe = NoLines
    /\ (ppc = "returned" /\ child.spawned) =>
          /\ child.exited
          /\ terminal.stdout = Count(child.program, "stdout")
          /\ terminal.stderr = Count(child.program, "stderr")

C8_Witness ==
    /\ ppc = "returned"
    /\ child.spawned
    /\ Count(child.program, "stderr") > PipeCapacity
    /\ child.exited
    /\ terminal.stderr > PipeCapacity
    /\ presult = Ok

====
